---------------------------- MODULE Spec2Model ----------------------------
(***************************************************************************)
(* AIVideoSync: the syncToBeat command (src/syncToBeat/main.go) and the    *)
(* keyframe editor (src/unnamed/part_002).                                 *)
(*                                                                         *)
(* float64 values are modelled as exact fractions [n |-> Int, d |-> Nat]   *)
(* in lowest terms; d = 0 encodes the IEEE special values: n = 1 is +Inf,  *)
(* n = -1 is -Inf and n = 0 is NaN.  Rounding error of the binary format   *)
(* and the sign of zero are not modelled.                                  *)
(***************************************************************************)
EXTENDS Integers, Sequences, FiniteSets, TLC

VARIABLES
    pc,                 \* position of the command: main and ffmpegAdjustSpeed
    bpmArg,             \* os.Args[1], an index into BpmArgs
    bpm,                \* the parsed BPM (float64)
    audioPath,          \* os.Args[4], "" when absent
    payload,            \* the content of the keyframe JSON file
    keyframes,          \* []Keyframe, a sequence of float64 times
    estimatedBPM,       \* result of estimateBPM
    i,                  \* loop index of the planner loop (0-based, as in Go)
    lastTime,           \* ffmpegAdjustSpeed: lastTime
    filterComplexParts, \* ffmpegAdjustSpeed: one record per emitted filter
    concatParts,        \* ffmpegAdjustSpeed: labels for concatenation
    cmds,               \* the ffmpeg invocations made so far (cmd.Run)
    err,                \* the error the command ended with, "" when none
    uiKeyframes,        \* editor: keyframes, records with time and x
    videoDuration,      \* editor: videoDuration
    canvasWidth,        \* editor: canvas.width
    currentTime,        \* editor: video.currentTime, in milliseconds
    download            \* editor: the file the step just taken downloaded

\* the variables of the command and those of the editor
cmdVars == <<pc, bpmArg, bpm, audioPath, payload, keyframes, estimatedBPM, i,
             lastTime, filterComplexParts, concatParts, cmds, err>>

uiVars == <<uiKeyframes, videoDuration, canvasWidth, currentTime, download>>

vars == <<cmdVars, uiVars>>

---------------------------------------------------------------------------
(* float64 *)

Abs(x) == IF x < 0 THEN -x ELSE x

Sign(x) == IF x < 0 THEN -1 ELSE IF x > 0 THEN 1 ELSE 0

RECURSIVE GCD(_, _)
GCD(a, b) == IF b = 0 THEN a ELSE GCD(b, a % b)

\* the float64 with value n/d (d may be negative or zero), in lowest terms
Float(n, d) ==
    IF d = 0 THEN [n |-> Sign(n), d |-> 0]
    ELSE LET g == GCD(Abs(n), Abs(d))
         IN  [n |-> (Sign(d) * n) \div g, d |-> Abs(d) \div g]

NaN == [n |-> 0, d |-> 0]

Zero == [n |-> 0, d |-> 1]

IsNaN(x) == x.d = 0 /\ x.n = 0

IsFinite(x) == x.d # 0

\* Go's x == y on float64: NaN equals nothing
FEq(x, y) == ~IsNaN(x) /\ ~IsNaN(y) /\ x = y

\* Go's x < y and x <= y on float64: false when either side is NaN
FLt(x, y) ==
    /\ ~IsNaN(x) /\ ~IsNaN(y)
    /\ IF x.d = 0 /\ y.d = 0 THEN x.n < y.n
       ELSE IF x.d = 0 THEN x.n < 0
       ELSE IF y.d = 0 THEN y.n > 0
       ELSE x.n * y.d < y.n * x.d

FLe(x, y) == FLt(x, y) \/ FEq(x, y)

FSub(x, y) ==
    IF x.d = 0 \/ y.d = 0
    THEN IF IsNaN(x) \/ IsNaN(y) THEN NaN
         ELSE IF x.d = 0 /\ y.d = 0
              THEN (IF x.n = y.n THEN NaN ELSE x)
              ELSE IF x.d = 0 THEN x ELSE [n |-> -y.n, d |-> 0]
    ELSE Float(x.n * y.d - y.n * x.d, x.d * y.d)

FAdd(x, y) == FSub(x, [n |-> -y.n, d |-> y.d])

FMul(x, y) == Float(x.n * y.n, x.d * y.d)

FDiv(x, y) ==
    IF IsNaN(x) \/ IsNaN(y) THEN NaN
    ELSE IF x.d = 0
         THEN (IF y.d = 0 THEN NaN
               ELSE [n |-> x.n * (IF y.n < 0 THEN -1 ELSE 1), d |-> 0])
         ELSE IF y.d = 0 THEN Zero
         ELSE Float(x.n * y.d, x.d * y.n)

\* math.Round: nearest integer, halves away from zero; specials unchanged
Round(x) ==
    IF x.d = 0 THEN x
    ELSE Float(Sign(x.n) * ((2 * Abs(x.n) + x.d) \div (2 * x.d)), 1)

---------------------------------------------------------------------------
(* inputs *)

\* the longest keyframe list a file holds
MaxKeyframes == 3

\* keyframe times a file may hold, in milliseconds
KeyframeTimes == {-500, 0, 500, 1100, 1104, 1105, 3000}

\* a time of KeyframeTimes as the float64 JSON decoding gives (seconds)
Seconds(ms) == Float(ms, 1000)

\* os.Args[1]: text strconv.ParseFloat accepts (with its value) or rejects
BpmArgs ==
    {[ok |-> TRUE, value |-> v] : v \in {60, 30, 0, -60}}
        \cup {[ok |-> FALSE, value |-> 0]}

\* os.Args[4] when present, "" when absent
AudioPaths == {"", "audio.mp3"}

\* the elements a JSON list may hold: an object with a numeric "time", an
\* object without a "time" member, an object whose "time" is a JSON string,
\* and the JSON value null
Items ==
    {[kind |-> "time", time |-> t] : t \in KeyframeTimes}
        \cup {[kind |-> k, time |-> 0] : k \in {"notime", "strtime", "null"}}

Lists == UNION {[1..n -> Items] : n \in 0..MaxKeyframes}

\* the keyframe file: unreadable, not JSON, a JSON object, the JSON value
\* null, or a JSON list
Payloads ==
    {[kind |-> "list", items |-> l] : l \in Lists}
        \cup {[kind |-> k, items |-> <<>>] :
                 k \in {"nofile", "notjson", "object", "null"}}

---------------------------------------------------------------------------
(* readKeyframes *)

\* encoding/json decoding one element of the list into a Keyframe: a
\* missing "time" member and a null leave the zero value, a "time" of the
\* wrong JSON type is an UnmarshalTypeError
DecodeItem(item) ==
    CASE item.kind = "time"    -> [err |-> FALSE, time |-> Seconds(item.time)]
      [] item.kind = "notime"  -> [err |-> FALSE, time |-> Zero]
      [] item.kind = "null"    -> [err |-> FALSE, time |-> Zero]
      [] item.kind = "strtime" -> [err |-> TRUE, time |-> Zero]

readKeyframes(p) ==
    CASE p.kind = "nofile"  -> [err |-> TRUE, keyframes |-> <<>>]
      [] p.kind = "notjson" -> [err |-> TRUE, keyframes |-> <<>>]
      [] p.kind = "object"  -> [err |-> TRUE, keyframes |-> <<>>]
      [] p.kind = "null"    -> [err |-> FALSE, keyframes |-> <<>>]
      [] p.kind = "list"    ->
           IF \E k \in 1..Len(p.items) : DecodeItem(p.items[k]).err
           THEN [err |-> TRUE, keyframes |-> <<>>]
           ELSE [err |-> FALSE,
                 keyframes |-> [k \in 1..Len(p.items) |->
                                   DecodeItem(p.items[k]).time]]

\* the editor's drop handler for a JSON file: JSON.parse, then
\* Array.isArray(json) && json.every(kf => 'time' in kf); `'time' in null`
\* throws a TypeError, which the handler's try/catch turns into a rejection
dropAccepts(p) ==
    /\ p.kind = "list"
    /\ \A k \in 1..Len(p.items) : p.items[k].kind \in {"time", "strtime"}

---------------------------------------------------------------------------
(* estimateBPM *)

\* mutant: the guard lets a single keyframe through
TooFewKeyframes_one(kfs) == Len(kfs) < 1

\* the guard of estimateBPM: too few keyframes to estimate
TooFewKeyframes(kfs) == Len(kfs) < 2

\* mutant: the intervals are added up by magnitude
RECURSIVE TotalInterval_abs(_, _)
TotalInterval_abs(kfs, k) ==
    IF k < 1 THEN Zero
    ELSE LET interval == FSub(kfs[k + 1], kfs[k])
         IN  FAdd(TotalInterval_abs(kfs, k - 1),
                  IF FLt(interval, Zero) THEN FSub(Zero, interval)
                  ELSE interval)

\* totalInterval after the loop has run up to (Go) index k
RECURSIVE TotalInterval(_, _)
TotalInterval(kfs, k) ==
    IF k < 1 THEN Zero
    ELSE FAdd(TotalInterval(kfs, k - 1), FSub(kfs[k + 1], kfs[k]))

\* mutant: the multipliers are tried from the largest down
multipliers_descending == <<Float(4, 1), Float(2, 1), Float(1, 1)>>

multipliers == <<Float(1, 1), Float(2, 1), Float(4, 1)>>

InBPMRange(x) == FLe(Float(50, 1), x) /\ FLe(x, Float(200, 1))

\* the multiplier loop from (1-based) position k on
RECURSIVE ClosestBPM(_, _)
ClosestBPM(initialEstimate, k) ==
    IF k > Len(multipliers) THEN initialEstimate
    ELSE LET adjustedBPM == FMul(initialEstimate, multipliers[k])
         IN  IF InBPMRange(adjustedBPM) THEN adjustedBPM
             ELSE ClosestBPM(initialEstimate, k + 1)

estimateBPM(kfs) ==
    IF TooFewKeyframes(kfs) THEN Zero
    ELSE LET totalInterval   == TotalInterval(kfs, Len(kfs) - 1)
             averageInterval == FDiv(totalInterval, Float(Len(kfs) - 1, 1))
             initialEstimate == FDiv(Float(60, 1), averageInterval)
         IN  ClosestBPM(initialEstimate, 1)

---------------------------------------------------------------------------
(* ffmpegAdjustSpeed: the planner *)

beatDuration(b) == FDiv(Float(60, 1), b)

\* mutant: rounding to whole beats instead of hundredths of a beat
roundToBeat_whole(value) == Round(value)

\* mutant: the beat index is scaled back by 10 instead of 100
roundToBeat_scale(value) == FDiv(Round(FMul(value, Float(100, 1))), Float(10, 1))

roundToBeat(value) == FDiv(Round(FMul(value, Float(100, 1))), Float(100, 1))

\* nearestBeatTime of a keyframe time
NearestBeatTime(t, b) ==
    LET beatNumber == roundToBeat(FDiv(t, beatDuration(b)))
    IN  FMul(beatNumber, beatDuration(b))

\* mutant: the first keyframe is skipped whatever its time
SkipFirst_always(idx, t) == idx = 0

\* the first keyframe is skipped when it is at time 0
SkipFirst(idx, t) == idx = 0 /\ FEq(t, Zero)

\* mutant: zero-duration segments are not skipped
SkipZeroDuration_never(segmentDuration) == FALSE

\* the segment is skipped when its source duration is zero
SkipZeroDuration(segmentDuration) == FEq(segmentDuration, Zero)

\* mutant: the clamp also replaces negative target durations
AdjustedSegmentDuration_nonpositive(nearestBeatTime, last) ==
    LET adjusted == FSub(nearestBeatTime, last)
    IN  IF FLe(adjusted, Zero) THEN Float(1, 100) ELSE adjusted

\* adjustedSegmentDuration, with the clamp of a zero target duration
AdjustedSegmentDuration(nearestBeatTime, last) ==
    LET adjusted == FSub(nearestBeatTime, last)
    IN  IF FEq(adjusted, Zero) THEN Float(1, 100) ELSE adjusted

\* mutant: lastTime follows the output timeline instead of the source
NewLastTime_snapped(t, nearestBeatTime) == nearestBeatTime

\* lastTime after a segment was emitted for the keyframe at time t
NewLastTime(t, nearestBeatTime) == t

\* mutant: the empty-plan guard never fires
NoSegments_never(parts) == Len(parts) < 0

\* the guard after the loop: nothing to concatenate
NoSegments(parts) == Len(parts) = 0

\* the trim filter of one emitted segment; nearestBeatTime,
\* targetBeatPosition and adjustedSegmentDuration are the loop's locals it
\* was computed from and printed with
TrimFilter(idx, t, last, b) ==
    LET nearestBeatTime         == NearestBeatTime(t, b)
        segmentDuration         == FSub(t, last)
        adjustedSegmentDuration == AdjustedSegmentDuration(nearestBeatTime, last)
    IN  [kind |-> "trim", start |-> last, end |-> t,
         speedFactor |-> FDiv(segmentDuration, adjustedSegmentDuration),
         label |-> idx,
         nearestBeatTime |-> nearestBeatTime,
         targetBeatPosition |->
             roundToBeat(FDiv(nearestBeatTime, beatDuration(b))),
         adjustedSegmentDuration |-> adjustedSegmentDuration,
         labels |-> <<>>, n |-> 0]

\* mutant: the concat count is the number of keyframes walked
ConcatFilter_countsKeyframes(parts) ==
    [kind |-> "concat", start |-> Zero, end |-> Zero, speedFactor |-> Zero,
     label |-> -1, nearestBeatTime |-> Zero, targetBeatPosition |-> Zero,
     adjustedSegmentDuration |-> Zero,
     labels |-> parts, n |-> i]

\* the concat filter appended after the loop
ConcatFilter(parts) ==
    [kind |-> "concat", start |-> Zero, end |-> Zero, speedFactor |-> Zero,
     label |-> -1, nearestBeatTime |-> Zero, targetBeatPosition |-> Zero,
     adjustedSegmentDuration |-> Zero,
     labels |-> parts, n |-> Len(parts)]

---------------------------------------------------------------------------
(* the command *)

\* no file was downloaded by the step just taken
NoDownload == [present |-> FALSE, items |-> <<>>]

\* the editor when its page has loaded: no keyframes, no video, a canvas of
\* the default width
EditorLoaded ==
    /\ uiKeyframes = <<>>
    /\ videoDuration = Zero
    /\ canvasWidth = 300
    /\ currentTime = 0
    /\ download = NoDownload

Init ==
    /\ EditorLoaded
    /\ pc = "main"
    /\ bpmArg \in BpmArgs
    /\ audioPath \in AudioPaths
    /\ payload \in Payloads
    /\ bpm = Zero
    /\ keyframes = <<>>
    /\ estimatedBPM = Zero
    /\ i = 0
    /\ lastTime = Zero
    /\ filterComplexParts = <<>>
    /\ concatParts = <<>>
    /\ cmds = <<>>
    /\ err = ""

\* main: strconv.ParseFloat(os.Args[1]), panic on failure
ParseBPM ==
    /\ pc = "main"
    /\ IF bpmArg.ok
       THEN /\ bpm' = Float(bpmArg.value, 1)
            /\ pc' = "readKeyframes"
            /\ err' = err
       ELSE /\ bpm' = bpm
            /\ pc' = "panic"
            /\ err' = "invalid syntax"
    /\ UNCHANGED <<bpmArg, audioPath, payload, keyframes, estimatedBPM, i,
                   lastTime, filterComplexParts, concatParts, cmds>>
    /\ UNCHANGED uiVars

\* main: readKeyframes(keyframeJsonPath), panic on failure
ReadKeyframes ==
    /\ pc = "readKeyframes"
    /\ LET r == readKeyframes(payload)
       IN  IF r.err
           THEN /\ pc' = "panic"
                /\ err' = "readKeyframes"
                /\ keyframes' = keyframes
           ELSE /\ pc' = "estimateBPM"
                /\ err' = err
                /\ keyframes' = r.keyframes
    /\ UNCHANGED <<bpmArg, bpm, audioPath, payload, estimatedBPM, i, lastTime,
                   filterComplexParts, concatParts, cmds>>
    /\ UNCHANGED uiVars

\* main: estimatedBPM := estimateBPM(keyframes)
EstimateBPM ==
    /\ pc = "estimateBPM"
    /\ estimatedBPM' = estimateBPM(keyframes)
    /\ pc' = "ffmpegAdjustSpeed"
    /\ UNCHANGED <<bpmArg, bpm, audioPath, payload, keyframes, i, lastTime,
                   filterComplexParts, concatParts, cmds, err>>
    /\ UNCHANGED uiVars

\* ffmpegAdjustSpeed: checkFFmpegAvailable, then the loop's initialisation
CheckFFmpegAvailable ==
    /\ pc = "ffmpegAdjustSpeed"
    /\ \E available \in BOOLEAN :
          IF available
          THEN /\ pc' = "loop"
               /\ err' = err
          ELSE /\ pc' = "fatal"
               /\ err' = "FFmpeg is not available"
    /\ i' = 0
    /\ lastTime' = Zero
    /\ UNCHANGED <<bpmArg, bpm, audioPath, payload, keyframes, estimatedBPM,
                   filterComplexParts, concatParts, cmds>>
    /\ UNCHANGED uiVars

\* ffmpegAdjustSpeed: one iteration of the loop over the keyframes
LoopBody ==
    /\ pc = "loop"
    /\ i < Len(keyframes)
    /\ LET t == keyframes[i + 1]
       IN  IF SkipFirst(i, t) \/ SkipZeroDuration(FSub(t, lastTime))
           THEN UNCHANGED <<lastTime, filterComplexParts, concatParts>>
           ELSE /\ filterComplexParts' =
                      Append(filterComplexParts, TrimFilter(i, t, lastTime, bpm))
                /\ concatParts' = Append(concatParts, i)
                /\ lastTime' = NewLastTime(t, NearestBeatTime(t, bpm))
    /\ i' = i + 1
    /\ UNCHANGED <<pc, bpmArg, bpm, audioPath, payload, keyframes,
                   estimatedBPM, cmds, err>>
    /\ UNCHANGED uiVars

\* ffmpegAdjustSpeed: after the loop, the empty-plan check and the concat
\* filter
LoopExit ==
    /\ pc = "loop"
    /\ i >= Len(keyframes)
    /\ IF NoSegments(concatParts)
       THEN /\ pc' = "fatal"
            /\ err' = "no segments to process"
            /\ filterComplexParts' = filterComplexParts
       ELSE /\ pc' = "retime"
            /\ err' = err
            /\ filterComplexParts' =
                   Append(filterComplexParts, ConcatFilter(concatParts))
    /\ UNCHANGED <<bpmArg, bpm, audioPath, payload, keyframes, estimatedBPM,
                   i, lastTime, concatParts, cmds>>
    /\ UNCHANGED uiVars

\* mutant: the error of the retime command is logged but not returned
RunRetime_ignoresFailure ==
    /\ pc = "retime"
    /\ cmds' = Append(cmds, "retime")
    /\ \E ok \in BOOLEAN :
          /\ pc' = IF audioPath # "" THEN "audio" ELSE "exit"
          /\ err' = IF ok THEN err ELSE "retime failed"
    /\ UNCHANGED <<bpmArg, bpm, audioPath, payload, keyframes, estimatedBPM,
                   i, lastTime, filterComplexParts, concatParts>>
    /\ UNCHANGED uiVars

\* ffmpegAdjustSpeed: cmd.Run of the retime command
RunRetime ==
    /\ pc = "retime"
    /\ cmds' = Append(cmds, "retime")
    /\ \E ok \in BOOLEAN :
          IF ~ok
          THEN pc' = "fatal" /\ err' = "retime failed"
          ELSE /\ pc' = IF audioPath # "" THEN "audio" ELSE "exit"
               /\ err' = err
    /\ UNCHANGED <<bpmArg, bpm, audioPath, payload, keyframes, estimatedBPM,
                   i, lastTime, filterComplexParts, concatParts>>
    /\ UNCHANGED uiVars

\* ffmpegAdjustSpeed: cmd.Run of the audio remux command
RunAudio ==
    /\ pc = "audio"
    /\ cmds' = Append(cmds, "audio")
    /\ \E ok \in BOOLEAN :
          IF ~ok
          THEN pc' = "fatal" /\ err' = "audio failed"
          ELSE pc' = "exit" /\ err' = err
    /\ UNCHANGED <<bpmArg, bpm, audioPath, payload, keyframes, estimatedBPM,
                   i, lastTime, filterComplexParts, concatParts>>
    /\ UNCHANGED uiVars

Next ==
    \/ ParseBPM
    \/ ReadKeyframes
    \/ EstimateBPM
    \/ CheckFFmpegAvailable
    \/ LoopBody
    \/ LoopExit
    \/ RunRetime
    \/ RunAudio

Spec == Init /\ [][Next]_vars

---------------------------------------------------------------------------
(* the keyframe editor *)

\* times the video may be at when a keyframe is added, in milliseconds
VideoTimes == {0, 500, 1100}

\* durations of the videos dropped on the editor, in milliseconds
VideoDurations == {2000, 4000}

\* widths the video element may have when the canvas is resized
CanvasWidths == {300, 600}

\* where on the canvas the user clicks: x, and the distance of y from the
\* middle line
ClickXs == {0, 72, 75, 150}

ClickDYs == {0, 4}

\* the JSON files dropped on the editor
DroppedItems ==
    {[kind |-> "time", time |-> t] : t \in {0, 500}}
        \cup {[kind |-> k, time |-> 0] : k \in {"notime", "strtime", "null"}}

DroppedPayloads ==
    {[kind |-> "list", items |-> l] :
        l \in UNION {[1..n -> DroppedItems] : n \in 0..MaxKeyframes}}
        \cup {[kind |-> k, items |-> <<>>] : k \in {"notjson", "object", "null"}}

\* keyframe.time as a JavaScript number: a string that is no number is NaN
TimeNumber(kf) == IF kf.kind = "time" THEN Seconds(kf.time) ELSE NaN

\* drawKeyframes: every keyframe gets its drawing x stored
drawKeyframes(kfs, duration, width) ==
    [k \in 1..Len(kfs) |->
        [kind |-> kfs[k].kind, time |-> kfs[k].time, hasX |-> TRUE,
         x |-> FMul(FDiv(TimeNumber(kfs[k]), duration), Float(width, 1))]]

\* a keyframe object as parsed from JSON or as pushed by the add handler
NewKeyframe(item) ==
    [kind |-> item.kind, time |-> item.time, hasX |-> FALSE, x |-> Zero]

\* the left-click hit test: within 5 of the dot's centre
HitDot(kf, x, dy) ==
    LET dx == FSub(kf.x, Float(x, 1))
    IN  FLe(FAdd(FMul(dx, dx), Float(dy * dy, 1)), Float(25, 1))

\* the right-click hit test: within 5 of the dot's x
HitX(kf, x) ==
    LET dx == FSub(kf.x, Float(x, 1))
    IN  FLe(FMul(dx, dx), Float(25, 1))

\* mutant: the save strips the time instead of the x
StripX_time(kf) == [kind |-> "notime", time |-> 0]

\* ({x, ...rest}) => rest, as JSON.stringify writes it and JSON.parse reads
\* it back: the time, a finite number or a string, is kept as it is
StripX(kf) == [kind |-> kf.kind, time |-> kf.time]

InitUI ==
    /\ EditorLoaded
    /\ pc = "main"
    /\ bpmArg = [ok |-> FALSE, value |-> 0]
    /\ audioPath = ""
    /\ payload = [kind |-> "nofile", items |-> <<>>]
    /\ bpm = Zero
    /\ keyframes = <<>>
    /\ estimatedBPM = Zero
    /\ i = 0
    /\ lastTime = Zero
    /\ filterComplexParts = <<>>
    /\ concatParts = <<>>
    /\ cmds = <<>>
    /\ err = ""

\* window resize: resizeCanvas
Resize ==
    /\ \E w \in CanvasWidths :
          /\ canvasWidth' = w
          /\ uiKeyframes' = drawKeyframes(uiKeyframes, videoDuration, w)
    /\ download' = NoDownload
    /\ UNCHANGED <<videoDuration, currentTime, cmdVars>>

\* canvas click: the video jumps to the first keyframe hit
CanvasClick ==
    /\ \E x \in ClickXs, dy \in ClickDYs :
          LET hits == {k \in 1..Len(uiKeyframes) : HitDot(uiKeyframes[k], x, dy)}
          IN  IF hits = {} THEN currentTime' = currentTime
              ELSE currentTime' =
                       uiKeyframes[CHOOSE k \in hits : \A l \in hits : k <= l].time
    /\ download' = NoDownload
    /\ UNCHANGED <<uiKeyframes, videoDuration, canvasWidth, cmdVars>>

\* canvas contextmenu: the first keyframe hit is deleted
ContextMenu ==
    /\ \E x \in ClickXs :
          LET hits == {k \in 1..Len(uiKeyframes) : HitX(uiKeyframes[k], x)}
          IN  IF hits = {} THEN uiKeyframes' = uiKeyframes
              ELSE LET idx  == CHOOSE k \in hits : \A l \in hits : k <= l
                       rest == [k \in 1..(Len(uiKeyframes) - 1) |->
                                   IF k < idx THEN uiKeyframes[k]
                                   ELSE uiKeyframes[k + 1]]
                   IN  uiKeyframes' =
                           drawKeyframes(rest, videoDuration, canvasWidth)
    /\ download' = NoDownload
    /\ UNCHANGED <<videoDuration, canvasWidth, currentTime, cmdVars>>

\* drop of a JSON file: reader.onload
DropJSON ==
    /\ \E p \in DroppedPayloads :
          IF dropAccepts(p)
          THEN uiKeyframes' =
                   drawKeyframes([k \in 1..Len(p.items) |-> NewKeyframe(p.items[k])],
                                 videoDuration, canvasWidth)
          ELSE uiKeyframes' = uiKeyframes
    /\ download' = NoDownload
    /\ UNCHANGED <<videoDuration, canvasWidth, currentTime, cmdVars>>

\* drop of a video file: video.onloadedmetadata
DropVideo ==
    /\ \E d \in VideoDurations, w \in CanvasWidths :
          /\ videoDuration' = Seconds(d)
          /\ canvasWidth' = w
          /\ uiKeyframes' = drawKeyframes(uiKeyframes, Seconds(d), w)
    /\ currentTime' = 0
    /\ download' = NoDownload
    /\ UNCHANGED cmdVars

\* the user plays or scrubs the video
Seek ==
    /\ \E t \in VideoTimes :
          /\ FLe(Seconds(t), videoDuration)
          /\ currentTime' = t
    /\ download' = NoDownload
    /\ UNCHANGED <<uiKeyframes, videoDuration, canvasWidth, cmdVars>>

\* addKeyframeButton click
AddKeyframe ==
    /\ Len(uiKeyframes) < MaxKeyframes
    /\ uiKeyframes' =
           drawKeyframes(Append(uiKeyframes,
                                NewKeyframe([kind |-> "time", time |-> currentTime])),
                         videoDuration, canvasWidth)
    /\ download' = NoDownload
    /\ UNCHANGED <<videoDuration, canvasWidth, currentTime, cmdVars>>

\* saveKeyframesButton click
SaveKeyframes ==
    /\ download' =
           [present |-> TRUE,
            items |-> [k \in 1..Len(uiKeyframes) |-> StripX(uiKeyframes[k])]]
    /\ UNCHANGED <<uiKeyframes, videoDuration, canvasWidth, currentTime,
                   cmdVars>>

\* clearKeyframesButton click
ClearKeyframes ==
    /\ uiKeyframes' = drawKeyframes(<<>>, videoDuration, canvasWidth)
    /\ download' = NoDownload
    /\ UNCHANGED <<videoDuration, canvasWidth, currentTime, cmdVars>>

NextUI ==
    \/ Resize
    \/ CanvasClick
    \/ ContextMenu
    \/ DropJSON
    \/ DropVideo
    \/ Seek
    \/ AddKeyframe
    \/ SaveKeyframes
    \/ ClearKeyframes

SpecUI == InitUI /\ [][NextUI]_vars

---------------------------------------------------------------------------
(* properties *)

\* the trim filters emitted so far: the plan's segments, in emission order
Segments == SelectSeq(filterComplexParts, LAMBDA f : f.kind = "trim")

\* the planner loop has run to its end
LoopRan ==
    \/ pc \in {"retime", "audio", "exit"}
    \/ pc = "fatal" /\ err # "FFmpeg is not available"

\* readKeyframes has returned the keyframes to main
Loaded == pc \in {"estimateBPM", "ffmpegAdjustSpeed", "loop", "retime",
                  "audio", "exit", "fatal"}

\* estimateBPM has returned
Estimated == pc \in {"ffmpegAdjustSpeed", "loop", "retime", "audio", "exit",
                     "fatal"}

PositiveBPM == bpmArg.ok /\ bpmArg.value > 0

NonNegativeTimes == \A k \in 1..Len(keyframes) : FLe(Zero, keyframes[k])

SameTimes == \A k \in 1..Len(keyframes) : keyframes[k] = keyframes[1]

RECURSIVE SumSource(_)
SumSource(k) ==
    IF k = 0 THEN Zero
    ELSE FAdd(SumSource(k - 1), FSub(Segments[k].end, Segments[k].start))

RECURSIVE SumTarget(_)
SumTarget(k) ==
    IF k = 0 THEN Zero
    ELSE FAdd(SumTarget(k - 1), Segments[k].adjustedSegmentDuration)

\* C1 (as claimed): with bpm > 0 and all keyframe times >= 0, every emitted
\* segment has a speedFactor that is finite and strictly positive.
C1_SpeedFactorPositiveFinite ==
    (PositiveBPM /\ NonNegativeTimes) =>
        \A k \in 1..Len(Segments) :
            /\ IsFinite(Segments[k].speedFactor)
            /\ FLt(Zero, Segments[k].speedFactor)

\* C2 (as claimed): with bpm > 0, every emitted segment's target interval
\* runs from the snapped time of its source start (0 for the first segment)
\* to the snapped time of its source end, its speedFactor is the source
\* duration over that target duration, and the target durations up to a
\* keyframe add up to that keyframe's snapped time.
C2_TargetsOnBeats ==
    PositiveBPM =>
        \A k \in 1..Len(Segments) :
            LET s           == Segments[k]
                targetStart == IF k = 1 THEN Zero
                               ELSE NearestBeatTime(s.start, bpm)
                targetEnd   == NearestBeatTime(s.end, bpm)
            IN  /\ FEq(s.adjustedSegmentDuration, FSub(targetEnd, targetStart))
                /\ FEq(s.speedFactor,
                       FDiv(FSub(s.end, s.start), FSub(targetEnd, targetStart)))
                /\ FEq(SumTarget(k), targetEnd)

\* C3: the emitted segments partition the source timeline: each segment
\* starts where the one before it ended, and once the loop has run the
\* source durations add up to the last keyframe's time minus the first
\* segment's start.
C3_SourcePartition ==
    /\ \A k \in 1..(Len(Segments) - 1) :
           FEq(Segments[k + 1].start, Segments[k].end)
    /\ (LoopRan /\ Len(Segments) > 0) =>
           FEq(SumSource(Len(Segments)),
               FSub(keyframes[Len(keyframes)], Segments[1].start))

\* C3 witness: a finished plan of two segments with a skipped keyframe
C3_Witness ==
    /\ pc = "retime"
    /\ Len(Segments) = 2
    /\ Len(keyframes) = 3
    /\ PositiveBPM

\* C4: when the loop ends having emitted no segment, ffmpegAdjustSpeed
\* fails with "no segments to process" and no ffmpeg command has run.
C4_EmptyPlanFails ==
    (LoopRan /\ Len(Segments) = 0) =>
        /\ pc = "fatal"
        /\ err = "no segments to process"
        /\ cmds = <<>>

\* C4 witness: every keyframe of a non-empty list was skipped
C4_Witness ==
    /\ pc = "fatal"
    /\ err = "no segments to process"
    /\ Len(keyframes) >= 2
    /\ cmds = <<>>

\* C5 (as claimed): with bpm > 0 and all keyframes (at least one) at the same
\* time t >= 0, the planner emits no segment and fails with "no segments to
\* process".
C5_SameTimesEmptyPlan ==
    (PositiveBPM /\ LoopRan /\ Len(keyframes) >= 1 /\ SameTimes
        /\ NonNegativeTimes) =>
        /\ Len(Segments) = 0
        /\ err = "no segments to process"

\* C5 (amended): with bpm > 0 and all keyframes (at least one) at the same
\* time t >= 0: for t = 0 the planner emits no segment and fails with "no
\* segments to process"; for t > 0 it emits exactly one segment, with source
\* (0, t).
C5_SameTimesPlan ==
    (PositiveBPM /\ LoopRan /\ Len(keyframes) >= 1 /\ SameTimes
        /\ NonNegativeTimes) =>
        IF FEq(keyframes[1], Zero)
        THEN /\ Len(Segments) = 0
             /\ pc = "fatal"
             /\ err = "no segments to process"
        ELSE /\ Len(Segments) = 1
             /\ FEq(Segments[1].start, Zero)
             /\ FEq(Segments[1].end, keyframes[1])
             /\ err # "no segments to process"

\* C5 witness: several keyframes at one time t > 0, the loop has run
C5_Witness ==
    /\ PositiveBPM
    /\ LoopRan
    /\ Len(keyframes) >= 2
    /\ SameTimes
    /\ FLt(Zero, keyframes[1])

\* the input of scenario B: keyframes [0, 0.5, 1.1] and bpm = 60
ScenarioB ==
    /\ bpmArg.ok /\ bpmArg.value = 60
    /\ keyframes = <<Zero, Float(1, 2), Float(11, 10)>>
    /\ LoopRan

\* C6 (as claimed): scenario B yields two segments: source (0, 0.5) snapped
\* to 0, target duration clamped to 0.01, speedFactor 50; and source
\* (0.5, 1.1) snapped to 1, target duration 1, speedFactor 0.6.
C6_ScenarioB_Claimed ==
    ScenarioB =>
        /\ Len(Segments) = 2
        /\ Segments[1].start = Zero /\ Segments[1].end = Float(1, 2)
        /\ Segments[1].nearestBeatTime = Zero
        /\ Segments[1].adjustedSegmentDuration = Float(1, 100)
        /\ Segments[1].speedFactor = Float(50, 1)
        /\ Segments[2].start = Float(1, 2) /\ Segments[2].end = Float(11, 10)
        /\ Segments[2].nearestBeatTime = Float(1, 1)
        /\ Segments[2].adjustedSegmentDuration = Float(1, 1)
        /\ Segments[2].speedFactor = Float(6, 10)

\* C6 (amended): scenario B yields two segments: source (0, 0.5) snapped to
\* 0.5, target duration 0.5, speedFactor 1; and source (0.5, 1.1) snapped to
\* 1.1, target duration 0.6, speedFactor 1.
C6_ScenarioB ==
    ScenarioB =>
        /\ Len(Segments) = 2
        /\ Segments[1].start = Zero /\ Segments[1].end = Float(1, 2)
        /\ Segments[1].nearestBeatTime = Float(1, 2)
        /\ Segments[1].adjustedSegmentDuration = Float(1, 2)
        /\ Segments[1].speedFactor = Float(1, 1)
        /\ Segments[2].start = Float(1, 2) /\ Segments[2].end = Float(11, 10)
        /\ Segments[2].nearestBeatTime = Float(11, 10)
        /\ Segments[2].adjustedSegmentDuration = Float(6, 10)
        /\ Segments[2].speedFactor = Float(1, 1)

\* C6 witness: scenario B, planned
C6_Witness == ScenarioB /\ pc = "retime"

\* C7 (as claimed): with a bpm <= 0 on the command line the program fails
\* before any segment is planned and before ffmpeg is invoked.
C7_NonPositiveBPMFailsFast ==
    (bpmArg.ok /\ bpmArg.value <= 0) =>
        /\ pc \notin {"loop", "retime", "audio", "exit"}
        /\ filterComplexParts = <<>>
        /\ cmds = <<>>

\* a well-formed list of time-bearing records
WellFormed(p) ==
    /\ p.kind = "list"
    /\ \A k \in 1..Len(p.items) : p.items[k].kind \in {"time", "strtime"}

\* C8 (as claimed): a payload that is not a well-formed list of time-bearing
\* records is rejected by readKeyframes and by the editor's drop handler.
C8_IllFormedRejected ==
    /\ Loaded => WellFormed(payload)
    /\ (payload.kind # "nofile" /\ dropAccepts(payload)) => WellFormed(payload)

\* C9 (as claimed): the keyframes handed to the planner are non-decreasing in
\* time and none is negative.
C9_SortedNonNegative ==
    Loaded =>
        /\ NonNegativeTimes
        /\ \A k \in 1..(Len(keyframes) - 1) :
               FLe(keyframes[k], keyframes[k + 1])

\* C10: for fewer than two keyframes estimateBPM returns 0.
C10_TooFewEstimatesZero ==
    (Estimated /\ Len(keyframes) < 2) => estimatedBPM = Zero

\* C10 witness: a single keyframe, not at time 0, was estimated
C10_Witness ==
    /\ pc = "ffmpegAdjustSpeed"
    /\ Len(keyframes) = 1
    /\ keyframes[1] # Zero
    /\ estimatedBPM = Zero

\* the estimate the multiplier rule gives for an average interval: 60 / avg
\* times the smallest of 1, 2, 4 that brings it into [50, 200], and 60 / avg
\* itself when none does
PlausibleBPM(x) == FLe(Float(50, 1), x) /\ FLe(x, Float(200, 1))

RuleEstimate(avg) ==
    LET initial == FDiv(Float(60, 1), avg)
        fits    == {m \in {1, 2, 4} : PlausibleBPM(FMul(initial, Float(m, 1)))}
    IN  IF fits = {} THEN initial
        ELSE FMul(initial,
                  Float(CHOOSE m \in fits : \A o \in fits : m <= o, 1))

\* the arithmetic mean of the consecutive intervals of the keyframes
RECURSIVE SumIntervals(_)
SumIntervals(k) ==
    IF k <= 1 THEN Zero
    ELSE FAdd(SumIntervals(k - 1), FSub(keyframes[k], keyframes[k - 1]))

MeanInterval == FDiv(SumIntervals(Len(keyframes)), Float(Len(keyframes) - 1, 1))

\* C11: for at least two keyframes with a positive average interval,
\* estimateBPM returns 60 / avg times the smallest multiplier of 1, 2, 4 that
\* brings it into [50, 200], so a value in [50, 200] whenever one of them
\* does, and the unmultiplied 60 / avg otherwise.
C11_EstimateByMultiplier ==
    (Estimated /\ Len(keyframes) >= 2 /\ FLt(Zero, MeanInterval)) =>
        /\ estimatedBPM = RuleEstimate(MeanInterval)
        /\ (\E m \in {1, 2, 4} :
               PlausibleBPM(FMul(FDiv(Float(60, 1), MeanInterval), Float(m, 1))))
               => PlausibleBPM(estimatedBPM)

\* C11 witness: the estimate 20 is outside the range, 40 is too, and the
\* multiplier 4 brings it to 80
C11_Witness ==
    /\ Estimated
    /\ Len(keyframes) = 2
    /\ MeanInterval = Float(3, 1)
    /\ estimatedBPM = Float(80, 1)

\* C12 (as claimed): with exactly one keyframe and bpm > 0 the plan has
\* exactly one segment, whatever the keyframe's time.
C12_SingleKeyframeOneSegment ==
    (PositiveBPM /\ LoopRan /\ Len(keyframes) = 1) => Len(Segments) = 1

\* C12 (amended): with exactly one keyframe and bpm > 0 the plan has exactly
\* one segment, with source (0, t), when the keyframe's time t is not 0; for
\* t = 0 the keyframe is skipped and the planner fails with "no segments to
\* process".
C12_SingleKeyframePlan ==
    (PositiveBPM /\ LoopRan /\ Len(keyframes) = 1) =>
        IF FEq(keyframes[1], Zero)
        THEN Len(Segments) = 0 /\ err = "no segments to process"
        ELSE /\ Len(Segments) = 1
             /\ Segments[1].label = 0
             /\ Segments[1].start = Zero
             /\ Segments[1].end = keyframes[1]

\* C12 witness: a single keyframe at a time other than 0 was planned
C12_Witness ==
    /\ PositiveBPM
    /\ pc = "retime"
    /\ Len(keyframes) = 1
    /\ Len(Segments) = 1

\* C13: beat snapping is idempotent: with bpm > 0, snapping the snapped time
\* of an emitted keyframe gives the snapped time again, and the beat
\* position the loop computes for the snapped time is the one that was
\* snapped to.
C13_SnapIdempotent ==
    PositiveBPM =>
        \A k \in 1..Len(Segments) :
            /\ NearestBeatTime(Segments[k].nearestBeatTime, bpm)
                   = Segments[k].nearestBeatTime
            /\ FMul(Segments[k].targetBeatPosition, beatDuration(bpm))
                   = Segments[k].nearestBeatTime

\* C13 witness: a keyframe off the grid (1.104 s) was snapped (to 1.1 s)
C13_Witness ==
    /\ PositiveBPM
    /\ \E k \in 1..Len(Segments) :
          /\ Segments[k].end = Float(1104, 1000)
          /\ Segments[k].nearestBeatTime = Float(11, 10)

\* the loop is about to process the keyframe at index i
AtKeyframe == pc = "loop" /\ i < Len(keyframes)

\* the source and target durations of the keyframe the loop is at
SourceDuration == FSub(keyframes[i + 1], lastTime)

TargetDuration == FSub(NearestBeatTime(keyframes[i + 1], bpm), lastTime)

\* C15 (as claimed): a keyframe whose source duration or whose target
\* duration is zero is dropped: the iteration emits no segment.
C15_ZeroDurationsDropped ==
    [][(AtKeyframe /\ (FEq(SourceDuration, Zero) \/ FEq(TargetDuration, Zero)))
          => UNCHANGED <<filterComplexParts, concatParts>>]_vars

\* C15 (amended): a keyframe whose source duration is zero is dropped: the
\* iteration emits no segment and leaves lastTime alone; a keyframe whose
\* target duration is zero and whose source duration is not is not dropped:
\* the iteration emits one segment for it.
C15_ZeroSourceDropped ==
    [][/\ (AtKeyframe /\ FEq(SourceDuration, Zero))
          => UNCHANGED <<filterComplexParts, concatParts, lastTime>>
       /\ (AtKeyframe /\ ~FEq(SourceDuration, Zero)
              /\ FEq(TargetDuration, Zero))
          => /\ Len(filterComplexParts') = Len(filterComplexParts) + 1
             /\ concatParts' = Append(concatParts, i)]_vars

\* C15 witness: the second of two keyframes at the same time, not 0, was
\* skipped after the first was emitted
C15_Witness ==
    /\ pc = "loop"
    /\ i = 2
    /\ keyframes[2] = keyframes[1]
    /\ keyframes[1] # Zero
    /\ concatParts = <<0>>

\* C16: a target duration of exactly zero (with a source duration that is
\* not zero) is replaced by 0.01, the segment is emitted with speedFactor =
\* source duration / 0.01 and no error is raised; any other target duration,
\* negative ones included, is used as it is.
C16_EpsilonClamp ==
    /\ \A k \in 1..Len(Segments) :
           LET s      == Segments[k]
               source == FSub(s.end, s.start)
               target == FSub(s.nearestBeatTime, s.start)
           IN  IF FEq(target, Zero)
               THEN /\ s.adjustedSegmentDuration = Float(1, 100)
                    /\ s.speedFactor = FDiv(source, Float(1, 100))
               ELSE /\ s.adjustedSegmentDuration = target
                    /\ s.speedFactor = FDiv(source, target)
    /\ pc = "loop" => err = ""

\* C16 witness: a plan holding a clamped segment and one with a negative
\* target duration
C16_Witness ==
    /\ \E k \in 1..Len(Segments) :
          /\ FEq(FSub(Segments[k].nearestBeatTime, Segments[k].start), Zero)
          /\ Segments[k].adjustedSegmentDuration = Float(1, 100)
    /\ \E k \in 1..Len(Segments) :
          FLt(Segments[k].adjustedSegmentDuration, Zero)

\* the retime command was built: the filter graph is complete
GraphBuilt ==
    \/ pc \in {"retime", "audio", "exit"}
    \/ pc = "fatal" /\ err \in {"retime failed", "audio failed"}

\* C17: the concat order is the emission order: one label per emitted
\* segment, in emission order, all labels distinct, and the concat filter
\* lists exactly these labels with n the number of emitted segments.
C17_ConcatIsEmissionOrder ==
    /\ Len(concatParts) = Len(Segments)
    /\ \A k \in 1..Len(concatParts) : concatParts[k] = Segments[k].label
    /\ \A k, l \in 1..Len(concatParts) :
           k # l => concatParts[k] # concatParts[l]
    /\ GraphBuilt =>
           LET last == filterComplexParts[Len(filterComplexParts)]
           IN  /\ last.kind = "concat"
               /\ last.labels = concatParts
               /\ last.n = Len(Segments)
               /\ Len(filterComplexParts) = Len(Segments) + 1

\* C17 witness: a finished filter graph of two segments, with the keyframe
\* between them skipped
C17_Witness ==
    /\ pc = "retime"
    /\ concatParts = <<0, 2>>

\* C18: the retime command runs first; the audio command runs only after
\* it, only with an audio path and only when the retime command succeeded;
\* a failed command's error is returned and nothing runs after it.
C18_CommandsInOrder ==
    /\ cmds \in {<<>>, <<"retime">>, <<"retime", "audio">>}
    /\ pc = "audio" => cmds = <<"retime">> /\ err = "" /\ audioPath # ""
    /\ Len(cmds) = 2 => audioPath # ""
    /\ err = "retime failed" => cmds = <<"retime">> /\ pc = "fatal"
    /\ err = "audio failed" => cmds = <<"retime", "audio">> /\ pc = "fatal"
    /\ pc = "fatal" => ~ENABLED Next

\* C18 witness: the retime command failed although an audio path was given
C18_Witness ==
    /\ pc = "fatal"
    /\ err = "retime failed"
    /\ audioPath # ""
    /\ cmds = <<"retime">>

Magnitude(x) == IF FLt(x, Zero) THEN FSub(Zero, x) ELSE x

=============================================================================
